---- MODULE Spec2Model ----
(***************************************************************************)
(* adbpuller (src/src/main.rs): the recursive-listing parser               *)
(* get_files_from_adb, the skip-list filter and the destination resolver   *)
(* of build_file_list / build_destination_files, SrcDestFiles, and main:   *)
(* the presets, the search for adb, the connectivity check, the dry run,   *)
(* the transfer loop and the two log files.                                *)
(*                                                                         *)
(* A text (Rust String, UnixPathBuf, PathBuf) is a sequence of             *)
(* one-character strings; paths keep their text and are compared by        *)
(* components, as unix_path and std::path do.                              *)
(***************************************************************************)
EXTENDS Integers, Sequences, FiniteSets, TLC

VARIABLES
    pc,                  \* position of the control flow
    root_path,           \* get_files_from_adb: the root being listed
    output,              \* stdout of `adb shell ls -R "<root>"`
    lines,               \* get_files_from_adb: lines
    li,                  \* index of the next line of `for line in lines`
    current_folder_root, \* get_files_from_adb: the cursor
    file_list,           \* get_files_from_adb: the result being built
    added_by,            \* history: index of the line that pushed file_list[k] (0: line 128)
    args,                \* main: the parsed Cli
    device,              \* what `ls -R` prints on the device, for each root
    disk,                \* the local paths that exist
    files_to_skip,       \* build_file_list: the skip set
    si,                  \* index of the next root of `for root_src in sources`
    root_src,            \* build_destination_files: root_src
    listed,              \* history: the list get_files_from_adb returned (line 284)
    fi,                  \* index of the next file of `for file in file_list`
    temp_files,          \* build_destination_files: files
    files,               \* build_file_list: files
    index,               \* SrcDestFilesIntoIterator: index
    item,                \* what Iterator::next returned last
    run,                 \* history: how many times the resolver ran
    first_run,           \* history: what the resolver returned the first time
    calls,               \* history: the bridge-tool invocations so far, in order
    adb,                 \* where the adb executable is
    dry_run,             \* Cli::dry_run
    stdin,               \* the replies the operator will give, then end of input
    user_input,          \* main: user_input
    printed,             \* history: the pairs printed by the dry run
    connected,           \* what connected_to_adb_server returned
    exit_code,           \* the code the process exited with, -1 while it runs
    files_done,          \* main: files_done
    files_failed,        \* main: files_failed
    outcomes,            \* history: how each iteration of the transfer loop ended
    mkdirs,              \* history: the directories create_dir_all made
    done_txt,            \* ./files_done.txt
    failed_txt,          \* ./files_failed.txt
    logs0,               \* history: the two log files before the run
    wi,                  \* index of the next path of the loops of lines 454 and 463
    presets,             \* Sources: media_preset, whatsapp_preset, whatsapp_backups_preset
    retries,             \* connected_to_adb_server: the argument retries
    seen,                \* history: the decoded outputs of the `adb devices` invocations
    lost                 \* history: the log lines whose write failed, as <<file, index>>

parseVars == <<root_path, output, lines, li, current_folder_root, added_by>>
buildVars == <<args, device, disk, files_to_skip, si, root_src, listed, fi,
               temp_files, files, index, item, run, first_run>>
mainVars == <<adb, dry_run, stdin, user_input, printed, connected, exit_code,
              files_done, files_failed, outcomes, mkdirs, done_txt, failed_txt,
              logs0, wi, presets, retries, seen, lost>>
vars == <<pc, file_list, parseVars, buildVars, calls, mainVars>>

----------------------------------------------------------------------------
(* Bounds *)

\* longest listing output, in lines
MaxLines == 4

----------------------------------------------------------------------------
(* Texts *)

Last(s) == s[Len(s)]
Front(s) == SubSeq(s, 1, Len(s) - 1)

RECURSIVE Flatten(_)
Flatten(ss) == IF ss = <<>> THEN <<>> ELSE Head(ss) \o Flatten(Tail(ss))

\* every sequence over S of length at most n
RECURSIVE SeqsUpTo(_, _)
SeqsUpTo(S, n) ==
    IF n = 0 THEN {<<>>}
    ELSE LET shorter == SeqsUpTo(S, n - 1)
         IN  shorter \cup {Append(s, x) : s \in {t \in shorter : Len(t) = n - 1}, x \in S}

IsWhite(c) == c \in {" ", "\t", "\r", "\n"}

\* str::trim
RECURSIVE trim_start(_)
trim_start(s) == IF s # <<>> /\ IsWhite(Head(s)) THEN trim_start(Tail(s)) ELSE s
RECURSIVE trim_end(_)
trim_end(s) == IF s # <<>> /\ IsWhite(Last(s)) THEN trim_end(Front(s)) ELSE s
trim(s) == trim_end(trim_start(s))

\* str::split on one separator character: the segments, empty ones included
RECURSIVE SplitAcc(_, _, _)
SplitAcc(s, sep, cur) ==
    IF s = <<>> THEN <<cur>>
    ELSE IF Head(s) = sep THEN <<cur>> \o SplitAcc(Tail(s), sep, <<>>)
    ELSE SplitAcc(Tail(s), sep, Append(cur, Head(s)))
Split(s, sep) == SplitAcc(s, sep, <<>>)

\* str::lines: split on "\n", a final empty segment is no line, a trailing
\* "\r" of a line is dropped
str_lines(s) ==
    LET segs == Split(s, "\n")
        kept == IF Last(segs) = <<>> THEN Front(segs) ELSE segs
    IN  [k \in 1..Len(kept) |->
            IF kept[k] # <<>> /\ Last(kept[k]) = "\r" THEN Front(kept[k]) ELSE kept[k]]

starts_with(s, c) == s # <<>> /\ Head(s) = c
ends_with(s, c) == s # <<>> /\ Last(s) = c

RECURSIVE SelectNonEmpty(_)
SelectNonEmpty(ls) ==
    IF ls = <<>> THEN <<>>
    ELSE IF Head(ls) = <<>> THEN SelectNonEmpty(Tail(ls))
    ELSE <<Head(ls)>> \o SelectNonEmpty(Tail(ls))

----------------------------------------------------------------------------
(* unix_path::{Path, PathBuf} (same rules as std::path on Unix) *)

has_root(p) == starts_with(p, "/")

\* Path::components without the root: empty segments (repeated or trailing
\* separators) and "." are skipped, except a leading "." of a relative path
RECURSIVE DropDots(_, _)
DropDots(segs, first) ==
    IF segs = <<>> THEN <<>>
    ELSE IF Head(segs) = <<>> THEN DropDots(Tail(segs), first)
    ELSE IF Head(segs) = <<".">> /\ ~first THEN DropDots(Tail(segs), FALSE)
    ELSE <<Head(segs)>> \o DropDots(Tail(segs), FALSE)
components(p) == DropDots(Split(p, "/"), ~has_root(p))

\* PartialEq for paths: component-wise
path_eq(p, q) == has_root(p) = has_root(q) /\ components(p) = components(q)

\* PathBuf::push / Path::join: an absolute argument replaces the path,
\* otherwise a separator is added when the path does not end in one
join(p, q) ==
    IF has_root(q) THEN q
    ELSE IF p # <<>> /\ Last(p) # "/" THEN p \o <<"/">> \o q
    ELSE p \o q

\* the vector's first index holding a path equal to p, 0 when there is none
\* (Iterator::position)
RECURSIVE PositionFrom(_, _, _)
PositionFrom(v, p, k) ==
    IF k > Len(v) THEN 0
    ELSE IF path_eq(v[k], p) THEN k
    ELSE PositionFrom(v, p, k + 1)
position(v, p) == PositionFrom(v, p, 1)

\* Vec::remove(k)
remove(v, k) == SubSeq(v, 1, k - 1) \o SubSeq(v, k + 1, Len(v))

\* the components with the root directory as a component of its own
RootDir == <<"/">>
full_components(p) == (IF has_root(p) THEN <<RootDir>> ELSE <<>>) \o components(p)

is_prefix(a, b) == Len(a) <= Len(b) /\ SubSeq(b, 1, Len(a)) = a

\* the segments joined by "/"
RECURSIVE join_segments(_)
join_segments(segs) ==
    IF segs = <<>> THEN <<>>
    ELSE IF Len(segs) = 1 THEN Head(segs)
    ELSE Head(segs) \o <<"/">> \o join_segments(Tail(segs))

\* trailing separators and trailing "." are no part of a path's last component
RECURSIVE trim_right(_)
trim_right(segs) ==
    IF segs = <<>> THEN <<>>
    ELSE IF Last(segs) = <<>> \/ (Last(segs) = <<".">> /\ Len(segs) > 1)
    THEN trim_right(Front(segs))
    ELSE segs

\* the segments left after the first n components
RECURSIVE skip_components(_, _, _)
skip_components(segs, n, first) ==
    IF segs = <<>> THEN <<>>
    ELSE IF Head(segs) = <<>> THEN skip_components(Tail(segs), n, first)
    ELSE IF Head(segs) = <<".">> /\ ~first THEN skip_components(Tail(segs), n, FALSE)
    ELSE IF n = 0 THEN segs
    ELSE skip_components(Tail(segs), n - 1, FALSE)

Some(v) == [some |-> TRUE, val |-> v]
None == [some |-> FALSE, val |-> <<>>]

\* Path::parent: the path without its last component; none for the root
\* directory and for the empty path
parent(p) ==
    IF components(p) = <<>> THEN None
    ELSE LET rest == join_segments(trim_right(Front(trim_right(Split(p, "/")))))
         IN  Some(IF has_root(p) /\ rest = <<>> THEN <<"/">> ELSE rest)

\* Path::strip_prefix: component-wise; the rest of the path, or none when
\* base is no prefix of p
strip_prefix(p, base) ==
    IF ~is_prefix(full_components(base), full_components(p)) THEN None
    ELSE IF full_components(base) = <<>> THEN Some(join_segments(trim_right(Split(p, "/"))))
    ELSE Some(join_segments(trim_right(
             skip_components(Split(p, "/"), Len(components(base)), ~has_root(p)))))

----------------------------------------------------------------------------
(* Inputs of the listing parser *)

\* source roots given with -s: an absolute one and a relative one
Roots == { <<"/", "r">>, <<"r">> }

\* the lines `ls -R` may print
H_r     == <<"/", "r", ":">>
H_rs    == <<"/", "r", "/", "s", ":">>
H_rel   == <<"r", ":">>
N_a     == <<"a">>
N_a_sp  == <<"a", " ">>
N_s     == <<"s">>
F_ra    == <<"/", "r", "/", "a">>
Blank   == <<>>
RawLines == {H_r, H_rs, H_rel, N_a, N_a_sp, N_s, F_ra, Blank}

\* the text of a listing: every line ended by "\n"
Unlines(ls) == Flatten([k \in 1..Len(ls) |-> ls[k] \o <<"\n">>])

Utf8(t) == [utf8 |-> TRUE, text |-> t]
NotUtf8 == [utf8 |-> FALSE, text |-> <<>>]
Outputs == {Utf8(Unlines(ls)) : ls \in SeqsUpTo(RawLines, MaxLines)} \cup {NotUtf8}

----------------------------------------------------------------------------
(* get_files_from_adb *)

\* lines 116-125: the trimmed lines, the empty ones dropped
read_lines(text) ==
    LET ls == str_lines(text)
    IN  SelectNonEmpty([k \in 1..Len(ls) |-> trim(ls[k])])

\* line 133
is_header(line) == starts_with(line, "/")

\* line 134: &line[..line.len() - 1]
header_folder(line) == Front(line)

\* lines 135-137
remove_stale(v, folder) ==
    LET k == position(v, folder) IN IF k = 0 THEN v ELSE remove(v, k)

\* lines 139-140
entry_path(folder, line) == join(folder, line)

\* SrcDestFiles::new, lines 153-158
new == [src_files |-> <<>>, dest_files |-> <<>>]

NoArgs == [sources |-> <<>>, dest |-> <<>>, skip |-> None, force |-> FALSE]

\* a log file: whether it exists, and its text
Absent == [exists |-> FALSE, text |-> <<>>]
File(t) == [exists |-> TRUE, text |-> t]

\* main has not started
MainIdle ==
    /\ calls = <<>>
    /\ adb = "adjacent"
    /\ dry_run = FALSE
    /\ stdin = <<>>
    /\ user_input = <<>>
    /\ printed = <<>>
    /\ connected = "unknown"
    /\ exit_code = -1
    /\ files_done = <<>>
    /\ files_failed = <<>>
    /\ outcomes = <<>>
    /\ mkdirs = <<>>
    /\ done_txt = Absent
    /\ failed_txt = Absent
    /\ logs0 = <<Absent, Absent>>
    /\ wi = 1
    /\ presets = [media_preset |-> FALSE, whatsapp_preset |-> FALSE,
                  whatsapp_backups_preset |-> FALSE]
    /\ retries = None
    /\ seen = <<>>
    /\ lost = {}

\* the rest of the program has not started
BuildIdle ==
    /\ args = NoArgs
    /\ device = <<>>
    /\ disk = {}
    /\ files_to_skip = {}
    /\ si = 1
    /\ root_src = <<>>
    /\ listed = <<>>
    /\ fi = 1
    /\ temp_files = new
    /\ files = new
    /\ index = 0
    /\ item = None
    /\ run = 1
    /\ first_run = new
    /\ MainIdle

ParseInit ==
    /\ pc = "output"
    /\ root_path \in Roots
    /\ output \in Outputs
    /\ lines = <<>>
    /\ li = 1
    /\ current_folder_root = <<>>
    /\ file_list = <<>>
    /\ added_by = <<>>
    /\ BuildIdle

\* lines 117-125, the output is text
Decode ==
    /\ pc = "output"
    /\ output.utf8
    /\ lines' = read_lines(output.text)
    /\ pc' = "lines"
    /\ UNCHANGED <<root_path, output, li, current_folder_root, file_list, added_by, buildVars>>
    /\ UNCHANGED <<calls, mainVars>>

\* lines 119-122, the output is no text: the empty list is returned
DecodeError ==
    /\ pc = "output"
    /\ ~output.utf8
    /\ pc' = "returned"
    /\ UNCHANGED <<file_list, parseVars, buildVars>>
    /\ UNCHANGED <<calls, mainVars>>

\* lines 127-131
SingleLine ==
    /\ pc = "lines"
    /\ IF Len(lines) = 1
       THEN /\ file_list' = Append(file_list, lines[1])
            /\ added_by' = Append(added_by, 0)
       ELSE UNCHANGED <<file_list, added_by>>
    /\ current_folder_root' = root_path
    /\ li' = 1
    /\ pc' = "scan"
    /\ UNCHANGED <<root_path, output, lines, buildVars>>
    /\ UNCHANGED <<calls, mainVars>>

\* lines 133-137
ScanHeader ==
    /\ pc = "scan"
    /\ li <= Len(lines)
    /\ is_header(lines[li])
    /\ LET folder == header_folder(lines[li])
           k == position(file_list, folder)
       IN  /\ current_folder_root' = folder
           /\ file_list' = remove_stale(file_list, folder)
           /\ added_by' = IF k = 0 THEN added_by ELSE remove(added_by, k)
    /\ li' = li + 1
    /\ UNCHANGED <<pc, root_path, output, lines, buildVars>>
    /\ UNCHANGED <<calls, mainVars>>

\* lines 138-141
ScanEntry ==
    /\ pc = "scan"
    /\ li <= Len(lines)
    /\ ~is_header(lines[li])
    /\ file_list' = Append(file_list, entry_path(current_folder_root, lines[li]))
    /\ added_by' = Append(added_by, li)
    /\ li' = li + 1
    /\ UNCHANGED <<pc, root_path, output, lines, current_folder_root, buildVars>>
    /\ UNCHANGED <<calls, mainVars>>

\* line 144
Return ==
    /\ pc = "scan"
    /\ li > Len(lines)
    /\ pc' = "returned"
    /\ UNCHANGED <<file_list, parseVars, buildVars>>
    /\ UNCHANGED <<calls, mainVars>>

\* lines 131-142 as one function: the scan of the lines left
RECURSIVE scan(_, _, _)
scan(ls, folder, v) ==
    IF ls = <<>> THEN v
    ELSE IF is_header(Head(ls))
    THEN scan(Tail(ls), header_folder(Head(ls)), remove_stale(v, header_folder(Head(ls))))
    ELSE scan(Tail(ls), folder, Append(v, entry_path(folder, Head(ls))))

\* lines 103-145 as one function of the root and of what the device printed
get_files_from_adb(root, out) ==
    IF ~out.utf8 THEN <<>>
    ELSE LET ls == read_lines(out.text)
         IN  scan(ls, root, IF Len(ls) = 1 THEN <<ls[1]>> ELSE <<>>)

\* the function is what the steps compute
StepsAgreeWithFunction ==
    pc = "returned" => file_list = get_files_from_adb(root_path, output)

ParseNext == Decode \/ DecodeError \/ SingleLine \/ ScanHeader \/ ScanEntry \/ Return

SpecParse == ParseInit /\ [][ParseNext]_vars

----------------------------------------------------------------------------
(* Claims about the listing parser, under SpecParse *)

Returned == pc = "returned" /\ output.utf8

\* C1: when the listing holds exactly one non-empty line X,
\* get_files_from_adb returns exactly the one-element sequence [X].
C1_SingleLineYieldsLine ==
    (Returned /\ Len(lines) = 1) => file_list = <<lines[1]>>

\* C2: when the listing is one directory header for the root (an absolute
\* path followed by ":") followed only by blank lines, get_files_from_adb
\* returns the empty sequence.
C2_EmptyDirectoryYieldsNothing ==
    (Returned /\ lines = <<root_path \o <<":">> >> /\ has_root(root_path))
        => file_list = <<>>

\* a listing in blocks: it opens with a header, a header is an absolute path
\* followed by ":", an entry name neither starts with "/" nor ends in ":"
IsBlockHeader(line) == starts_with(line, "/") /\ ends_with(line, ":")
IsBlockEntry(line) == ~starts_with(line, "/") /\ ~ends_with(line, ":")
BlockStructured(ls) ==
    /\ ls # <<>>
    /\ IsBlockHeader(ls[1])
    /\ \A k \in 1..Len(ls) : IsBlockHeader(ls[k]) \/ IsBlockEntry(ls[k])

\* the directory a header names: the ":" and a "/" before it removed
HeaderDirectory(line) ==
    LET d == Front(line)
    IN  IF Len(d) > 1 /\ Last(d) = "/" THEN Front(d) ELSE d

\* C3: for a block-structured listing, the returned sequence holds no path
\* equal to the directory of a header line that comes after the line that
\* added the path: every occurrence is removed.
C3_NoStaleEntries ==
    (Returned /\ BlockStructured(lines)) =>
        \A k \in 1..Len(file_list), j \in 1..Len(lines) :
            (IsBlockHeader(lines[j]) /\ added_by[k] < j)
                => ~path_eq(file_list[k], HeaderDirectory(lines[j]))

\* C4: while scanning, a line is a header if and only if it ends in ":"; a
\* header sets the cursor to the line without the ":" (and a "/" before it)
\* and appends nothing; every other line L appends cursor.join(L) and leaves
\* the cursor unchanged.
C4_ScanStep ==
    (pc = "scan" /\ li <= Len(lines)) =>
        IF ends_with(lines[li], ":")
        THEN /\ path_eq(current_folder_root', HeaderDirectory(lines[li]))
             /\ Len(file_list') <= Len(file_list)
        ELSE /\ file_list' = Append(file_list, join(current_folder_root, lines[li]))
             /\ current_folder_root' = current_folder_root
C4_HeaderIffColon == [][C4_ScanStep]_vars

\* C5: the returned sequence holds no path twice, and the surviving paths
\* are in the order in which their lines were scanned.
C5_DeduplicatedInOrder ==
    Returned =>
        \A k, m \in 1..Len(file_list) :
            k < m => (file_list[k] # file_list[m] /\ added_by[k] < added_by[m])

----------------------------------------------------------------------------
(* std::path::{Path, PathBuf} on the local side, normpath::BasePathBuf and
   the local file system *)

\* the directory the program runs in
Cwd == <<"/", "w">>

\* BasePathBuf::new: a relative path is joined to the current directory
BasePathBuf_new(p) == IF has_root(p) THEN p ELSE join(Cwd, p)

\* the place in the file system a local path names
location(p) == components(BasePathBuf_new(p))

\* Path::exists
exists(p) == location(p) \in disk

----------------------------------------------------------------------------
(* SrcDestFiles, lines 147-204 *)

\* lines 328-329: the pair pushed on the two vectors
push_pair(f, src, dest) ==
    [src_files |-> Append(f.src_files, src),
     dest_files |-> Append(f.dest_files, BasePathBuf_new(dest))]

\* append with line 163 left out
append_src_only(self, other) ==
    [self |-> [src_files |-> self.src_files \o other.src_files,
               dest_files |-> self.dest_files],
     other |-> [src_files |-> <<>>, dest_files |-> other.dest_files]]

\* SrcDestFiles::append, lines 161-164: self and other afterwards
append(self, other) ==
    [self |-> [src_files |-> self.src_files \o other.src_files,
               dest_files |-> self.dest_files \o other.dest_files],
     other |-> [src_files |-> <<>>, dest_files |-> <<>>]]

\* SrcDestFiles::len, lines 170-172
len(f) == Len(f.src_files)

\* Iterator::next, lines 192-203: the item, none at the end
next(f, i) ==
    IF i < Len(f.src_files) /\ i < Len(f.dest_files)
    THEN Some(<<f.src_files[i + 1], f.dest_files[i + 1]>>)
    ELSE None

----------------------------------------------------------------------------
(* get_files_to_skip, lines 206-216 *)

\* a skip file: its text, or unreadable (read_to_string fails)
Readable(t) == [readable |-> TRUE, text |-> t]
Unreadable == [readable |-> FALSE, text |-> <<>>]

\* line 210: read_to_string(path).unwrap_or_default().lines()
skip_lines(f) == IF f.readable THEN str_lines(f.text) ELSE <<>>

get_files_to_skip(skip) ==
    IF ~skip.some THEN {}
    ELSE UNION { {skip_lines(skip.val[k])[n] : n \in 1..Len(skip_lines(skip.val[k]))}
                 : k \in 1..Len(skip.val) }

\* retain without the negation: the skipped paths are the ones kept
RECURSIVE retain_skipped(_, _)
retain_skipped(v, skipset) ==
    IF v = <<>> THEN <<>>
    ELSE IF Head(v) \notin skipset THEN retain_skipped(Tail(v), skipset)
    ELSE <<Head(v)>> \o retain_skipped(Tail(v), skipset)

\* line 286: file_list.retain(|x| !files_to_skip.contains(x.to_str().unwrap()))
RECURSIVE retain_not_skipped(_, _)
retain_not_skipped(v, skipset) ==
    IF v = <<>> THEN <<>>
    ELSE IF Head(v) \in skipset THEN retain_not_skipped(Tail(v), skipset)
    ELSE <<Head(v)>> \o retain_not_skipped(Tail(v), skipset)

----------------------------------------------------------------------------
(* build_destination_files, lines 296-333: one action for each way an
   iteration of `for file in file_list` ends *)

\* the prefix stripped is the root itself, not its parent
file_rel_to_root(file, root) == strip_prefix(file, root)

\* line 300: file.strip_prefix(root_src.parent().unwrap())
file_rel_to_src(file, root) == strip_prefix(file, parent(root).val)

\* line 311
destination(file, root, root_dest) == join(root_dest, file_rel_to_src(file, root).val)

\* the force flag read the wrong way round
skip_existing_forced(dest, force) == exists(dest) /\ force

\* line 324: dest.exists() && !force
skip_existing(dest, force) == exists(dest) /\ ~force

InLoop == pc = "resolve" /\ fi <= Len(file_list)

\* line 300: root_src has no parent and unwrap panics
ResolvePanic ==
    /\ InLoop
    /\ ~parent(root_src).some
    /\ pc' = "panicked"
    /\ UNCHANGED <<file_list, parseVars, buildVars>>
    /\ UNCHANGED <<calls, mainVars>>

\* lines 302-308: the prefix cannot be stripped, the file is dropped
ResolveStripFails ==
    /\ InLoop
    /\ parent(root_src).some
    /\ ~file_rel_to_src(file_list[fi], root_src).some
    /\ fi' = fi + 1
    /\ UNCHANGED <<pc, file_list, parseVars, args, device, disk, files_to_skip, si,
                   root_src, listed, temp_files, files, index, item, run, first_run>>
    /\ UNCHANGED <<calls, mainVars>>

\* lines 324-326: the destination exists and force is not set
ResolveExists ==
    /\ InLoop
    /\ parent(root_src).some
    /\ file_rel_to_src(file_list[fi], root_src).some
    /\ skip_existing(destination(file_list[fi], root_src, args.dest), args.force)
    /\ fi' = fi + 1
    /\ UNCHANGED <<pc, file_list, parseVars, args, device, disk, files_to_skip, si,
                   root_src, listed, temp_files, files, index, item, run, first_run>>
    /\ UNCHANGED <<calls, mainVars>>

\* lines 328-329
ResolvePush ==
    /\ InLoop
    /\ parent(root_src).some
    /\ file_rel_to_src(file_list[fi], root_src).some
    /\ ~skip_existing(destination(file_list[fi], root_src, args.dest), args.force)
    /\ temp_files' = push_pair(temp_files, file_list[fi],
                               destination(file_list[fi], root_src, args.dest))
    /\ fi' = fi + 1
    /\ UNCHANGED <<pc, file_list, parseVars, args, device, disk, files_to_skip, si,
                   root_src, listed, files, index, item, run, first_run>>
    /\ UNCHANGED <<calls, mainVars>>

----------------------------------------------------------------------------
(* Inputs of build_file_list *)

\* most source roots on the command line
MaxSources == 2

R_dcim == <<"/", "s", "d", "c", "a", "r", "d", "/", "D", "C", "I", "M">>
R_top == <<"/">>
BuildRoots == {R_dcim, R_top}

\* what the device prints for /sdcard/DCIM: the directory with two files and
\* a sub-directory, or the one line of ls for a missing path
LS_dcim == <<"/", "s", "d", "c", "a", "r", "d", "/", "D", "C", "I", "M", ":",
      "\n", "a", ".", "j", "p", "g", "\n", "b", ".", "j", "p", "g", "\n",
      "s", "u", "b", "\n", "\n", "/", "s", "d", "c", "a", "r", "d", "/",
      "D", "C", "I", "M", "/", "s", "u", "b", ":", "\n", "c", ".", "j",
      "p", "g", "\n">>
LS_missing == <<"l", "s", ":", " ", "/", "s", "d", "c", "a", "r", "d", "/", "D",
      "C", "I", "M", ":", " ", "N", "o", " ", "s", "u", "c", "h", " ",
      "f", "i", "l", "e", " ", "o", "r", " ", "d", "i", "r", "e", "c",
      "t", "o", "r", "y", "\n">>
LS_top == <<"/", ":", "\n", "s", "d", "c", "a", "r", "d", "\n">>

Devices ==
    { [r \in BuildRoots |-> IF r = R_dcim THEN o ELSE Utf8(LS_top)]
      : o \in {Utf8(LS_dcim), Utf8(LS_missing), NotUtf8} }

\* the paths of the listing
P_a == <<"/", "s", "d", "c", "a", "r", "d", "/", "D", "C", "I", "M", "/",
      "a", ".", "j", "p", "g">>
P_b == <<"/", "s", "d", "c", "a", "r", "d", "/", "D", "C", "I", "M", "/",
      "b", ".", "j", "p", "g">>
P_c == <<"/", "s", "d", "c", "a", "r", "d", "/", "D", "C", "I", "M", "/",
      "s", "u", "b", "/", "c", ".", "j", "p", "g">>

\* skip files as files_done.txt of an earlier run
Skip_a == Readable(P_a \o <<"\n">>)
Skip_ca == Readable(P_c \o <<"\n">> \o P_a \o <<"\r", "\n">>)
SkipChoices == {None, Some(<<Skip_a>>), Some(<<Skip_ca, Unreadable>>)}

\* --dest: a relative and an absolute folder
D_out == <<"o", "u", "t">>
D_abs == <<"/", "o">>
DestChoices == {D_out, D_abs}

\* what exists before the run: nothing, or a.jpg of an earlier run
Loc_a_out == <<<<"w">>, D_out, <<"D", "C", "I", "M">>, <<"a", ".", "j", "p", "g">>>>
Loc_a_abs == <<<<"o">>, <<"D", "C", "I", "M">>, <<"a", ".", "j", "p", "g">>>>
DiskChoices == {{}, {Loc_a_out, Loc_a_abs}}

ArgsChoices ==
    { [sources |-> ss, dest |-> d, skip |-> sk, force |-> f]
      : ss \in SeqsUpTo(BuildRoots, MaxSources) \ {<<>>},
        d \in DestChoices, sk \in SkipChoices, f \in BOOLEAN }

----------------------------------------------------------------------------
(* build_file_list, lines 279-294, and the iteration of its result *)

BuildInit ==
    /\ pc = "start"
    /\ args \in ArgsChoices
    /\ device \in Devices
    /\ disk \in DiskChoices
    /\ files_to_skip = {}
    /\ si = 1
    /\ root_src = <<>>
    /\ listed = <<>>
    /\ fi = 1
    /\ temp_files = new
    /\ files = new
    /\ index = 0
    /\ item = None
    /\ run = 1
    /\ first_run = new
    /\ file_list = <<>>
    /\ root_path = <<>>
    /\ output = NotUtf8
    /\ lines = <<>>
    /\ li = 1
    /\ current_folder_root = <<>>
    /\ added_by = <<>>
    /\ MainIdle

\* lines 280-281
GetFilesToSkip ==
    /\ pc = "start"
    /\ files_to_skip' = get_files_to_skip(args.skip)
    /\ files' = new
    /\ si' = 1
    /\ pc' = "roots"
    /\ UNCHANGED <<file_list, parseVars, args, device, disk, root_src, listed, fi,
                   temp_files, index, item, run, first_run>>
    /\ UNCHANGED <<calls, mainVars>>

\* lines 283-285: the next root is listed on the device
ListRoot ==
    /\ pc = "roots"
    /\ si <= Len(args.sources)
    /\ root_src' = args.sources[si]
    /\ file_list' = get_files_from_adb(args.sources[si], device[args.sources[si]])
    /\ listed' = file_list'
    /\ pc' = "listed"
    /\ UNCHANGED <<parseVars, args, device, disk, files_to_skip, si, fi, temp_files,
                   files, index, item, run, first_run>>
    /\ calls' = Append(calls, "ls")
    /\ UNCHANGED mainVars

\* line 114: the command cannot be run and expect panics
ListRootFails ==
    /\ pc = "roots"
    /\ si <= Len(args.sources)
    /\ pc' = "panicked"
    /\ UNCHANGED <<file_list, parseVars, buildVars>>
    /\ UNCHANGED <<calls, mainVars>>

\* line 286, and lines 288 and 297: the resolver starts on what is left
Retain ==
    /\ pc = "listed"
    /\ file_list' = retain_not_skipped(file_list, files_to_skip)
    /\ temp_files' = new
    /\ fi' = 1
    /\ pc' = "resolve"
    /\ UNCHANGED <<parseVars, args, device, disk, files_to_skip, si, root_src, listed,
                   files, index, item, run, first_run>>
    /\ UNCHANGED <<calls, mainVars>>

\* lines 332 and 289-291: the resolver returns and its result is moved to files
AppendFiles ==
    /\ pc = "resolve"
    /\ fi > Len(file_list)
    /\ files' = append(files, temp_files).self
    /\ temp_files' = append(files, temp_files).other
    /\ si' = si + 1
    /\ pc' = "roots"
    /\ UNCHANGED <<file_list, parseVars, args, device, disk, files_to_skip, root_src,
                   listed, fi, index, item, run, first_run>>
    /\ UNCHANGED <<calls, mainVars>>

\* line 293, and into_iter, lines 179-181
ReturnFiles ==
    /\ pc = "roots"
    /\ si > Len(args.sources)
    /\ index' = 0
    /\ pc' = "built"
    /\ UNCHANGED <<file_list, parseVars, args, device, disk, files_to_skip, si, root_src,
                   listed, fi, temp_files, files, item, run, first_run>>
    /\ UNCHANGED <<calls, mainVars>>

\* lines 192-203: next returns a pair
IterNext ==
    /\ pc = "built"
    /\ next(files, index).some
    /\ item' = next(files, index)
    /\ index' = index + 1
    /\ UNCHANGED <<pc, file_list, parseVars, args, device, disk, files_to_skip, si,
                   root_src, listed, fi, temp_files, files, run, first_run>>
    /\ UNCHANGED <<calls, mainVars>>

\* lines 193-200: next returns None
IterEnd ==
    /\ pc = "built"
    /\ ~next(files, index).some
    /\ item' = None
    /\ pc' = "iterated"
    /\ UNCHANGED <<file_list, parseVars, args, device, disk, files_to_skip, si, root_src,
                   listed, fi, temp_files, files, index, run, first_run>>
    /\ UNCHANGED <<calls, mainVars>>

BuildNext ==
    \/ GetFilesToSkip \/ ListRoot \/ ListRootFails \/ Retain
    \/ ResolvePanic \/ ResolveStripFails \/ ResolveExists \/ ResolvePush
    \/ AppendFiles \/ ReturnFiles \/ IterNext \/ IterEnd

SpecBuild == BuildInit /\ [][BuildNext]_vars

----------------------------------------------------------------------------
(* build_destination_files on its own: any list of paths, and the resolver
   run again after files of its result were copied *)

\* longest list of paths given to the resolver
MaxFiles == 3
\* how many times the resolver runs
MaxRuns == 2

\* the longest sequence of replies the operator gives before end of input
MaxReplies == 2

\* the paths given to the resolver: three files of the root and the line ls
\* prints for a missing path, which is not under the root's parent
X_missing == <<"l", "s", ":", " ", "/", "s", "d", "c", "a", "r", "d", "/", "D",
      "C", "I", "M", ":", " ", "N", "o", " ", "s", "u", "c", "h", " ",
      "f", "i", "l", "e", " ", "o", "r", " ", "d", "i", "r", "e", "c",
      "t", "o", "r", "y">>
ResolvePaths == {P_a, P_b, P_c, X_missing}

ResolveInit ==
    /\ pc = "resolve"
    /\ root_src \in BuildRoots
    /\ file_list \in SeqsUpTo(ResolvePaths, MaxFiles)
    /\ args \in { [sources |-> <<root_src>>, dest |-> d, skip |-> None, force |-> f]
                  : d \in DestChoices, f \in BOOLEAN }
    /\ disk \in DiskChoices
    /\ device = <<>>
    /\ files_to_skip = {}
    /\ si = 1
    /\ listed = file_list
    /\ fi = 1
    /\ temp_files = new
    /\ files = new
    /\ index = 0
    /\ item = None
    /\ run = 1
    /\ first_run = new
    /\ root_path = <<>>
    /\ output = NotUtf8
    /\ lines = <<>>
    /\ li = 1
    /\ current_folder_root = <<>>
    /\ added_by = <<>>
    /\ MainIdle

\* line 332
ResolveReturn ==
    /\ pc = "resolve"
    /\ fi > Len(file_list)
    /\ pc' = "resolved"
    /\ first_run' = IF run = 1 THEN temp_files ELSE first_run
    /\ UNCHANGED <<file_list, parseVars, args, device, disk, files_to_skip, si, root_src,
                   listed, fi, temp_files, files, index, item, run>>
    /\ UNCHANGED <<calls, mainVars>>

\* lines 422-432: `adb pull` of one resolved pair succeeds and the destination
\* file exists from then on
Pull ==
    /\ pc \in {"resolved", "pulled"}
    /\ \E k \in 1..Len(temp_files.dest_files) :
           /\ location(temp_files.dest_files[k]) \notin disk
           /\ disk' = disk \cup {location(temp_files.dest_files[k])}
    /\ pc' = "pulled"
    /\ UNCHANGED <<file_list, parseVars, args, device, files_to_skip, si, root_src,
                   listed, fi, temp_files, files, index, item, run, first_run>>
    /\ UNCHANGED <<calls, mainVars>>

\* the program is run again with the same arguments and the same listing
ResolveAgain ==
    /\ pc \in {"resolved", "pulled"}
    /\ run < MaxRuns
    /\ run' = run + 1
    /\ temp_files' = new
    /\ fi' = 1
    /\ pc' = "resolve"
    /\ UNCHANGED <<file_list, parseVars, args, device, disk, files_to_skip, si, root_src,
                   listed, files, index, item, first_run>>
    /\ UNCHANGED <<calls, mainVars>>

ResolveNext ==
    \/ ResolvePanic \/ ResolveStripFails \/ ResolveExists \/ ResolvePush
    \/ ResolveReturn \/ Pull \/ ResolveAgain

SpecResolve == ResolveInit /\ [][ResolveNext]_vars

----------------------------------------------------------------------------
(* Claims about the filter, under SpecBuild *)

\* how many of the first j elements of v satisfy K
CountKept(v, K(_), j) == Cardinality({k \in 1..j : K(v[k])})

\* out is the subsequence of v, in order, of exactly the elements that satisfy K
IsSelection(out, v, K(_)) ==
    /\ Len(out) = CountKept(v, K, Len(v))
    /\ \A j \in 1..Len(v) : K(v[j]) => out[CountKept(v, K, j)] = v[j]

Range(v) == {v[k] : k \in 1..Len(v)}

\* the patterns of the end-to-end scenarios: ".*" matches every path,
\* "\.jpg$" the paths that end in ".jpg"
Pat_any == ".*"
Pat_jpg == "\\.jpg$"
Suffix_jpg == <<".", "j", "p", "g">>
Matches(pat, p) ==
    IF pat = Pat_any THEN TRUE
    ELSE Len(p) >= Len(Suffix_jpg)
         /\ SubSeq(p, Len(p) - Len(Suffix_jpg) + 1, Len(p)) = Suffix_jpg
IncludeChoices == {None, Some({Pat_any})}
ExcludeChoices == {{}, {Pat_jpg}}

\* the three stages of the filter, for a skip set and the patterns supplied
Survives(p, skipset, include, exclude) ==
    /\ p \notin skipset
    /\ include.some => \E r \in include.val : Matches(r, p)
    /\ \A r \in exclude : ~Matches(r, p)

\* C6: whatever include and exclude patterns are supplied, a listed path is
\* passed on to the resolver if and only if it is not in the skip set, it
\* matches an include pattern when include patterns were supplied, and it
\* matches no exclude pattern; with include ".*" and exclude "\.jpg$" no
\* path ending in .jpg is resolved.
C6_ThreeStages ==
    pc = "resolve" =>
        \A include \in IncludeChoices, exclude \in ExcludeChoices :
            \A j \in 1..Len(listed) :
                listed[j] \in Range(file_list)
                    <=> Survives(listed[j], files_to_skip, include, exclude)

\* C7: the filtered sequence is the subsequence of the listed one, in the
\* original order, of exactly the paths whose text is not in the skip set;
\* it is never longer than the input, and equals it when the skip set is empty.
C7_PureRemoval ==
    pc = "resolve" =>
        /\ IsSelection(file_list, listed, LAMBDA p : p \notin files_to_skip)
        /\ Len(file_list) <= Len(listed)
        /\ files_to_skip = {} => file_list = listed

\* a path of the skip set was removed, another path was kept
C7_Witness ==
    /\ pc = "resolve"
    /\ files_to_skip # {}
    /\ 0 < Len(file_list)
    /\ Len(file_list) < Len(listed)

----------------------------------------------------------------------------
(* Claims about SrcDestFiles, under SpecBuild *)

\* the components of p from the last component of root on
RestAfter(p, root) ==
    SubSeq(components(p), Len(components(root)), Len(components(p)))

\* index i of dest_files is the destination of index i of src_files, for one
\* of the source roots
PairedByIndex(f) ==
    /\ Len(f.src_files) = Len(f.dest_files)
    /\ \A i \in 1..Len(f.src_files) :
           \E k \in 1..Len(args.sources) :
               location(f.dest_files[i])
                   = location(args.dest) \o RestAfter(f.src_files[i], args.sources[k])

\* C10: in every state reached by resolving, concatenating and iterating,
\* src_files and dest_files of every SrcDestFiles have the same length and
\* index i of one pairs with index i of the other (the iterator yields the
\* two entries of one index); append leaves its argument with both lists empty.
C10_ParallelArrays ==
    /\ PairedByIndex(files)
    /\ PairedByIndex(temp_files)
    /\ (pc = "roots" /\ si > 1) =>
           (temp_files.src_files = <<>> /\ temp_files.dest_files = <<>>)
    /\ (pc = "built" /\ item.some) =>
           item.val = <<files.src_files[index], files.dest_files[index]>>

\* two roots were resolved and appended, and the iterator is at the end
C10_Witness ==
    /\ pc = "built"
    /\ si = 3
    /\ index = Len(files.src_files)
    /\ index >= 4
    /\ item.some

----------------------------------------------------------------------------
(* Claims about the destination resolver, under SpecResolve *)

\* p has the parent of root as a prefix
HasParentPrefix(p, root) ==
    is_prefix(Front(full_components(root)), full_components(p))

\* relative(p, parent(root)): the path from the last component of root on
Relative(p, root) == join_segments(RestAfter(p, root))

\* the resolver returned from its first run, force unset, nothing on disk
FirstRunOnEmptyDisk == pc = "resolved" /\ run = 1 /\ ~args.force /\ disk = {}

\* the sources of the result are the paths under the root's parent, in order
SourcesInOrder ==
    IsSelection(temp_files.src_files, file_list,
                LAMBDA p : HasParentPrefix(p, root_src))

Out_a == <<"o", "u", "t", "/", "D", "C", "I", "M", "/", "a", ".", "j", "p", "g">>
Out_b == <<"o", "u", "t", "/", "D", "C", "I", "M", "/", "b", ".", "j", "p", "g">>
Out_c == <<"o", "u", "t", "/", "D", "C", "I", "M", "/", "s", "u", "b", "/", "c", ".", "j", "p", "g">>

C9_Idempotence ==
    /\ (pc = "resolved" /\ run > 1 /\ ~args.force
          /\ \A i \in 1..Len(first_run.dest_files) :
                 location(first_run.dest_files[i]) \in disk)
           => temp_files = new
    /\ (pc \in {"resolve", "resolved"} /\ ~args.force)
           => \A i \in 1..Len(temp_files.dest_files) :
                  location(temp_files.dest_files[i]) \notin disk
    /\ (pc = "resolved" /\ args.force) => SourcesInOrder

\* a second run that found every destination of a non-empty first run
C9_Witness ==
    /\ pc = "resolved"
    /\ run = 2
    /\ ~args.force
    /\ Len(first_run.dest_files) >= 2
    /\ \A i \in 1..Len(first_run.dest_files) : location(first_run.dest_files[i]) \in disk
    /\ temp_files = new

(***************************************************************************)
(* Cli::check_sources, lines 74-100 *)
(***************************************************************************)
R_pictures == <<"/", "s", "d", "c", "a", "r", "d", "/", "P", "i", "c", "t", "u", "r",
      "e", "s">>
\* the presets are appended to the explicit sources, in this order; a root
\* already given is appended again
check_sources(sources, media_preset, whatsapp_preset, whatsapp_backups_preset) ==
    sources
        \o (IF media_preset THEN <<R_dcim, R_pictures>> ELSE <<>>)
        \o (IF whatsapp_preset
            THEN << <<"/", "s", "d", "c", "a", "r", "d", "/", "A", "n", "d", "r", "o", "i",
                  "d", "/", "m", "e", "d", "i", "a", "/", "c", "o", "m", ".", "w",
                  "h", "a", "t", "s", "a", "p", "p", "/", "W", "h", "a", "t", "s",
                  "A", "p", "p", "/", "M", "e", "d", "i", "a", "/", "W", "h", "a",
                  "t", "s", "A", "p", "p", " ", "A", "u", "d", "i", "o">>,
                 <<"/", "s", "d", "c", "a", "r", "d", "/", "A", "n", "d", "r", "o", "i",
                  "d", "/", "m", "e", "d", "i", "a", "/", "c", "o", "m", ".", "w",
                  "h", "a", "t", "s", "a", "p", "p", "/", "W", "h", "a", "t", "s",
                  "A", "p", "p", "/", "M", "e", "d", "i", "a", "/", "W", "h", "a",
                  "t", "s", "A", "p", "p", " ", "I", "m", "a", "g", "e", "s">>,
                 <<"/", "s", "d", "c", "a", "r", "d", "/", "A", "n", "d", "r", "o", "i",
                  "d", "/", "m", "e", "d", "i", "a", "/", "c", "o", "m", ".", "w",
                  "h", "a", "t", "s", "a", "p", "p", "/", "W", "h", "a", "t", "s",
                  "A", "p", "p", "/", "M", "e", "d", "i", "a", "/", "W", "h", "a",
                  "t", "s", "A", "p", "p", " ", "V", "i", "d", "e", "o">>,
                 <<"/", "s", "d", "c", "a", "r", "d", "/", "A", "n", "d", "r", "o", "i",
                  "d", "/", "m", "e", "d", "i", "a", "/", "c", "o", "m", ".", "w",
                  "h", "a", "t", "s", "a", "p", "p", "/", "W", "h", "a", "t", "s",
                  "A", "p", "p", "/", "M", "e", "d", "i", "a", "/", "W", "h", "a",
                  "t", "s", "A", "p", "p", " ", "V", "o", "i", "c", "e", " ", "N",
                  "o", "t", "e", "s">>,
                 <<"/", "s", "d", "c", "a", "r", "d", "/", "A", "n", "d", "r", "o", "i",
                  "d", "/", "m", "e", "d", "i", "a", "/", "c", "o", "m", ".", "w",
                  "h", "a", "t", "s", "a", "p", "p", "/", "W", "h", "a", "t", "s",
                  "A", "p", "p", "/", "M", "e", "d", "i", "a", "/", "W", "h", "a",
                  "t", "s", "A", "p", "p", " ", "V", "i", "d", "e", "o", " ", "N",
                  "o", "t", "e", "s">>,
                 <<"/", "s", "d", "c", "a", "r", "d", "/", "A", "n", "d", "r", "o", "i",
                  "d", "/", "m", "e", "d", "i", "a", "/", "c", "o", "m", ".", "w",
                  "h", "a", "t", "s", "a", "p", "p", "/", "W", "h", "a", "t", "s",
                  "A", "p", "p", "/", "M", "e", "d", "i", "a", "/", "W", "h", "a",
                  "t", "s", "A", "p", "p", " ", "D", "o", "c", "u", "m", "e", "n",
                  "t", "s">> >>
            ELSE <<>>)
        \o (IF whatsapp_backups_preset
            THEN << <<"/", "s", "d", "c", "a", "r", "d", "/", "A", "n", "d", "r", "o", "i",
                  "d", "/", "m", "e", "d", "i", "a", "/", "c", "o", "m", ".", "w",
                  "h", "a", "t", "s", "a", "p", "p", "/", "W", "h", "a", "t", "s",
                  "A", "p", "p", "/", "B", "a", "c", "k", "u", "p", "s">>,
                 <<"/", "s", "d", "c", "a", "r", "d", "/", "A", "n", "d", "r", "o", "i",
                  "d", "/", "m", "e", "d", "i", "a", "/", "c", "o", "m", ".", "w",
                  "h", "a", "t", "s", "a", "p", "p", "/", "W", "h", "a", "t", "s",
                  "A", "p", "p", "/", "D", "a", "t", "a", "b", "a", "s", "e", "s">> >>
            ELSE <<>>)

(***************************************************************************)
(* get_adb_path, lines 246-265, and connected_to_adb_server, lines 218-244 *)
(***************************************************************************)
\* where adb is: next to the executable, on $PATH only, nowhere; "no_exe":
\* the path of the running executable cannot be had
\* adb taken as found wherever it is
get_adb_path_found(a) == [ok |-> TRUE, val |-> a]

\* Ok with where adb was found, or Err with the message
get_adb_path(a) ==
    IF a = "no_exe"
    THEN [ok |-> FALSE, val |-> "Failed to get path of the adbpuller executable"]
    ELSE IF a = "adjacent" THEN [ok |-> TRUE, val |-> "adjacent"]
    ELSE IF a = "on_path" THEN [ok |-> TRUE, val |-> "on_path"]
    ELSE [ok |-> FALSE,
          val |-> "Unable to find adb drivers. Download and add them to $PATH"]

\* one retry more than the code gives
default_retries_two(r) == IF r.some THEN r.val ELSE 2

\* retries.unwrap_or(1), line 219
default_retries(r) == IF r.some THEN r.val ELSE 1

\* str::ends_with for a text
ends_with_str(s, suffix) ==
    Len(s) >= Len(suffix) /\ SubSeq(s, Len(s) - Len(suffix) + 1, Len(s)) = suffix

ListOfDevices == <<"L", "i", "s", "t", " ", "o", "f", " ", "d", "e", "v", "i", "c", "e",
      "s", " ", "a", "t", "t", "a", "c", "h", "e", "d">>

\* line 237: the header is the last line of the output
no_device(out_string) == ends_with_str(trim_end(out_string), ListOfDevices)

\* what `adb devices` may print: no device, one device, nothing at all
D_none == <<"L", "i", "s", "t", " ", "o", "f", " ", "d", "e", "v", "i", "c", "e",
      "s", " ", "a", "t", "t", "a", "c", "h", "e", "d", "\n", "\n">>
D_one == <<"L", "i", "s", "t", " ", "o", "f", " ", "d", "e", "v", "i", "c", "e",
      "s", " ", "a", "t", "t", "a", "c", "h", "e", "d", "\n", "X", "\t",
      "d", "e", "v", "i", "c", "e", "\n", "\n">>
DevicesTexts == {D_none, D_one, <<>>}

\* lines 336-341: the presets are added to the sources
CheckSources ==
    /\ pc = "parse"
    /\ args' = [args EXCEPT !.sources =
                    check_sources(@, presets.media_preset, presets.whatsapp_preset,
                                  presets.whatsapp_backups_preset)]
    /\ pc' = "main"
    /\ UNCHANGED <<file_list, parseVars, device, disk, files_to_skip, si,
                   root_src, listed, fi, temp_files, files, index, item, run,
                   first_run, calls, adb, dry_run, stdin, user_input,
                   printed, connected, exit_code, files_done, files_failed,
                   outcomes, mkdirs, done_txt, failed_txt, logs0, wi,
                   presets, retries, seen, lost>>

\* lines 343-347: adb is found
GetAdbPathOk ==
    /\ pc = "main"
    /\ get_adb_path(adb).ok
    /\ retries' = None
    /\ pc' = "devices"
    /\ UNCHANGED <<file_list, parseVars, args, device, disk, files_to_skip,
                   si, root_src, listed, fi, temp_files, files, index, item,
                   run, first_run, calls, adb, dry_run, stdin, user_input,
                   printed, connected, exit_code, files_done, files_failed,
                   outcomes, mkdirs, done_txt, failed_txt, logs0, wi,
                   presets, seen, lost>>

\* lines 348-351: adb is not found, exit(1)
GetAdbPathErr ==
    /\ pc = "main"
    /\ ~get_adb_path(adb).ok
    /\ exit_code' = 1
    /\ pc' = "exited"
    /\ UNCHANGED <<file_list, parseVars, args, device, disk, files_to_skip,
                   si, root_src, listed, fi, temp_files, files, index, item,
                   run, first_run, calls, adb, dry_run, stdin, user_input,
                   printed, connected, files_done, files_failed, outcomes,
                   mkdirs, done_txt, failed_txt, logs0, wi, presets, retries,
                   seen, lost>>

\* lines 223-229: `adb devices` cannot be run, exit(1)
DevicesSpawnFails ==
    /\ pc = "devices"
    /\ exit_code' = 1
    /\ pc' = "exited"
    /\ UNCHANGED <<file_list, parseVars, args, device, disk, files_to_skip,
                   si, root_src, listed, fi, temp_files, files, index, item,
                   run, first_run, calls, adb, dry_run, stdin, user_input,
                   printed, connected, files_done, files_failed, outcomes,
                   mkdirs, done_txt, failed_txt, logs0, wi, presets, retries,
                   seen, lost>>

\* line 233: the output is not UTF-8, unwrap panics
DevicesNotUtf8 ==
    /\ pc = "devices"
    /\ calls' = Append(calls, "devices")
    /\ pc' = "panicked"
    /\ UNCHANGED <<file_list, parseVars, args, device, disk, files_to_skip,
                   si, root_src, listed, fi, temp_files, files, index, item,
                   run, first_run, adb, dry_run, stdin, user_input, printed,
                   connected, exit_code, files_done, files_failed, outcomes,
                   mkdirs, done_txt, failed_txt, logs0, wi, presets, retries,
                   seen, lost>>

\* lines 237-238: a device is attached; main goes on to build_file_list
DevicesConnected ==
    /\ pc = "devices"
    /\ \E o \in DevicesTexts :
           /\ ~no_device(o)
           /\ seen' = Append(seen, o)
    /\ calls' = Append(calls, "devices")
    /\ connected' = "true"
    /\ pc' = "start"
    /\ UNCHANGED <<file_list, parseVars, args, device, disk, files_to_skip,
                   si, root_src, listed, fi, temp_files, files, index, item,
                   run, first_run, adb, dry_run, stdin, user_input, printed,
                   exit_code, files_done, files_failed, outcomes, mkdirs,
                   done_txt, failed_txt, logs0, wi, presets, retries, lost>>

\* lines 239-240: no device and retries left, the function calls itself
DevicesRetry ==
    /\ pc = "devices"
    /\ default_retries(retries) > 0
    /\ \E o \in DevicesTexts :
           /\ no_device(o)
           /\ seen' = Append(seen, o)
    /\ calls' = Append(calls, "devices")
    /\ retries' = Some(default_retries(retries) - 1)
    /\ UNCHANGED <<pc, file_list, parseVars, args, device, disk,
                   files_to_skip, si, root_src, listed, fi, temp_files,
                   files, index, item, run, first_run, adb, dry_run, stdin,
                   user_input, printed, connected, exit_code, files_done,
                   files_failed, outcomes, mkdirs, done_txt, failed_txt,
                   logs0, wi, presets, lost>>

\* lines 241-243 and 355-358: no device and no retry left, exit(1)
DevicesNone ==
    /\ pc = "devices"
    /\ ~(default_retries(retries) > 0)
    /\ \E o \in DevicesTexts :
           /\ no_device(o)
           /\ seen' = Append(seen, o)
    /\ calls' = Append(calls, "devices")
    /\ connected' = "false"
    /\ exit_code' = 1
    /\ pc' = "exited"
    /\ UNCHANGED <<file_list, parseVars, args, device, disk, files_to_skip,
                   si, root_src, listed, fi, temp_files, files, index, item,
                   run, first_run, adb, dry_run, stdin, user_input, printed,
                   files_done, files_failed, outcomes, mkdirs, done_txt,
                   failed_txt, logs0, wi, presets, retries, lost>>

(***************************************************************************)
(* main after build_file_list, lines 364-469 *)
(***************************************************************************)
\* SrcDestFiles::is_empty, lines 166-168
is_empty(f) == f.src_files = <<>>

\* what `for (src_file, dest_file) in files.into_iter()` goes through
RECURSIVE items_from(_, _)
items_from(f, i) ==
    IF next(f, i).some THEN <<next(f, i).val>> \o items_from(f, i + 1) ELSE <<>>

\* the dry-run flag not looked at
dry_run_ignored(dry, f) == FALSE

\* line 369
dry_run_preview(dry, f) == dry /\ ~is_empty(f)

\* str::to_lowercase on the letters of the replies
to_lowercase(s) ==
    [k \in 1..Len(s) |-> IF s[k] = "Y" THEN "y" ELSE IF s[k] = "N" THEN "n" ELSE s[k]]

\* user_input.trim().to_lowercase() == a
answered(u, a) == to_lowercase(trim(u)) = <<a>>

\* line 372: the condition of the while loop
asking(u) == ~answered(u, "y") /\ ~answered(u, "n")

\* lines 369-370: a dry run with something to copy
DryRunBranch ==
    /\ pc = "built"
    /\ dry_run_preview(dry_run, files)
    /\ user_input' = <<>>
    /\ pc' = "prompt"
    /\ UNCHANGED <<file_list, parseVars, args, device, disk, files_to_skip,
                   si, root_src, listed, fi, temp_files, files, index, item,
                   run, first_run, calls, adb, dry_run, stdin, printed,
                   connected, exit_code, files_done, files_failed, outcomes,
                   mkdirs, done_txt, failed_txt, logs0, wi, presets, retries,
                   seen, lost>>

\* lines 392-395: nothing to copy, exit(0)
NothingToCopy ==
    /\ pc = "built"
    /\ ~dry_run_preview(dry_run, files)
    /\ is_empty(files)
    /\ exit_code' = 0
    /\ pc' = "exited"
    /\ UNCHANGED <<file_list, parseVars, args, device, disk, files_to_skip,
                   si, root_src, listed, fi, temp_files, files, index, item,
                   run, first_run, calls, adb, dry_run, stdin, user_input,
                   printed, connected, files_done, files_failed, outcomes,
                   mkdirs, done_txt, failed_txt, logs0, wi, presets, retries,
                   seen, lost>>

\* lines 397-408: the transfer loop starts
StartTransfer ==
    /\ pc = "built"
    /\ ~dry_run_preview(dry_run, files)
    /\ ~is_empty(files)
    /\ files_done' = <<>>
    /\ files_failed' = <<>>
    /\ index' = 0
    /\ pc' = "transfer"
    /\ UNCHANGED <<file_list, parseVars, args, device, disk, files_to_skip,
                   si, root_src, listed, fi, temp_files, files, item, run,
                   first_run, calls, adb, dry_run, stdin, user_input,
                   printed, connected, exit_code, outcomes, mkdirs, done_txt,
                   failed_txt, logs0, wi, presets, retries, seen, lost>>

\* lines 372-375: the reply is neither y nor n; the prompt is printed and
\* user_input cleared
PrintPrompt ==
    /\ pc = "prompt"
    /\ asking(user_input)
    /\ user_input' = <<>>
    /\ pc' = "read"
    /\ UNCHANGED <<file_list, parseVars, args, device, disk, files_to_skip,
                   si, root_src, listed, fi, temp_files, files, index, item,
                   run, first_run, calls, adb, dry_run, stdin, printed,
                   connected, exit_code, files_done, files_failed, outcomes,
                   mkdirs, done_txt, failed_txt, logs0, wi, presets, retries,
                   seen, lost>>

\* line 376: read_line appends the next line of standard input
ReadLine ==
    /\ pc = "read"
    /\ stdin # <<>>
    /\ user_input' = user_input \o Head(stdin)
    /\ stdin' = Tail(stdin)
    /\ pc' = "prompt"
    /\ UNCHANGED <<file_list, parseVars, args, device, disk, files_to_skip,
                   si, root_src, listed, fi, temp_files, files, index, item,
                   run, first_run, calls, adb, dry_run, printed, connected,
                   exit_code, files_done, files_failed, outcomes, mkdirs,
                   done_txt, failed_txt, logs0, wi, presets, retries, seen,
                   lost>>

\* line 376: at end of input read_line reads nothing; its result is dropped
ReadEof ==
    /\ pc = "read"
    /\ stdin = <<>>
    /\ pc' = "prompt"
    /\ UNCHANGED <<file_list, parseVars, args, device, disk, files_to_skip,
                   si, root_src, listed, fi, temp_files, files, index, item,
                   run, first_run, calls, adb, dry_run, stdin, user_input,
                   printed, connected, exit_code, files_done, files_failed,
                   outcomes, mkdirs, done_txt, failed_txt, logs0, wi,
                   presets, retries, seen, lost>>

\* lines 379-389: the reply is y; the pairs are printed, exit(0)
AnswerYes ==
    /\ pc = "prompt"
    /\ ~asking(user_input)
    /\ answered(user_input, "y")
    /\ printed' = items_from(files, 0)
    /\ exit_code' = 0
    /\ pc' = "exited"
    /\ UNCHANGED <<file_list, parseVars, args, device, disk, files_to_skip,
                   si, root_src, listed, fi, temp_files, files, index, item,
                   run, first_run, calls, adb, dry_run, stdin, user_input,
                   connected, files_done, files_failed, outcomes, mkdirs,
                   done_txt, failed_txt, logs0, wi, presets, retries, seen,
                   lost>>

\* lines 379 and 389: the reply is n, exit(0)
AnswerNo ==
    /\ pc = "prompt"
    /\ ~asking(user_input)
    /\ ~answered(user_input, "y")
    /\ exit_code' = 0
    /\ pc' = "exited"
    /\ UNCHANGED <<file_list, parseVars, args, device, disk, files_to_skip,
                   si, root_src, listed, fi, temp_files, files, index, item,
                   run, first_run, calls, adb, dry_run, stdin, user_input,
                   printed, connected, files_done, files_failed, outcomes,
                   mkdirs, done_txt, failed_txt, logs0, wi, presets, retries,
                   seen, lost>>

\* the source pushed to both lists
after_pull_both(done, failed, src_file, success) ==
    [done |-> Append(done, src_file), failed |-> Append(failed, src_file)]

\* lines 431-435
after_pull(done, failed, src_file, success) ==
    IF success
    THEN [done |-> Append(done, src_file), failed |-> failed]
    ELSE [done |-> done, failed |-> Append(failed, src_file)]

\* lines 408-420: the directory cannot be made; the file is recorded as
\* failed and the loop goes on
TransferMkdirFails ==
    /\ pc = "transfer"
    /\ next(files, index).some
    /\ item' = next(files, index)
    /\ index' = index + 1
    /\ files_failed' = Append(files_failed, item'.val[1])
    /\ outcomes' = Append(outcomes,
                          [src |-> item'.val[1], dest |-> item'.val[2], kind |-> "mkdir_failed"])
    /\ UNCHANGED <<pc, file_list, parseVars, args, device, disk,
                   files_to_skip, si, root_src, listed, fi, temp_files,
                   files, run, first_run, calls, adb, dry_run, stdin,
                   user_input, printed, connected, exit_code, files_done,
                   mkdirs, done_txt, failed_txt, logs0, wi, presets, retries,
                   seen, lost>>

\* lines 422-432: adb pull exits with success; the file now exists locally
TransferPullOk ==
    /\ pc = "transfer"
    /\ next(files, index).some
    /\ item' = next(files, index)
    /\ index' = index + 1
    /\ mkdirs' = Append(mkdirs, parent(item'.val[2]).val)
    /\ calls' = Append(calls, "pull")
    /\ disk' = disk \cup {location(item'.val[2])}
    /\ files_done' = after_pull(files_done, files_failed, item'.val[1], TRUE).done
    /\ files_failed' = after_pull(files_done, files_failed, item'.val[1], TRUE).failed
    /\ outcomes' = Append(outcomes,
                          [src |-> item'.val[1], dest |-> item'.val[2], kind |-> "copied"])
    /\ UNCHANGED <<pc, file_list, parseVars, args, device, files_to_skip, si,
                   root_src, listed, fi, temp_files, files, run, first_run,
                   adb, dry_run, stdin, user_input, printed, connected,
                   exit_code, done_txt, failed_txt, logs0, wi, presets,
                   retries, seen, lost>>

\* lines 422-434: adb pull exits with a failure
TransferPullFails ==
    /\ pc = "transfer"
    /\ next(files, index).some
    /\ item' = next(files, index)
    /\ index' = index + 1
    /\ mkdirs' = Append(mkdirs, parent(item'.val[2]).val)
    /\ calls' = Append(calls, "pull")
    /\ files_done' = after_pull(files_done, files_failed, item'.val[1], FALSE).done
    /\ files_failed' = after_pull(files_done, files_failed, item'.val[1], FALSE).failed
    /\ outcomes' = Append(outcomes,
                          [src |-> item'.val[1], dest |-> item'.val[2], kind |-> "pull_failed"])
    /\ UNCHANGED <<pc, file_list, parseVars, args, device, disk,
                   files_to_skip, si, root_src, listed, fi, temp_files,
                   files, run, first_run, adb, dry_run, stdin, user_input,
                   printed, connected, exit_code, done_txt, failed_txt,
                   logs0, wi, presets, retries, seen, lost>>

\* lines 422-429: adb pull cannot be started, expect panics
TransferPullPanics ==
    /\ pc = "transfer"
    /\ next(files, index).some
    /\ item' = next(files, index)
    /\ index' = index + 1
    /\ mkdirs' = Append(mkdirs, parent(item'.val[2]).val)
    /\ pc' = "panicked"
    /\ UNCHANGED <<file_list, parseVars, args, device, disk, files_to_skip,
                   si, root_src, listed, fi, temp_files, files, run,
                   first_run, calls, adb, dry_run, stdin, user_input,
                   printed, connected, exit_code, files_done, files_failed,
                   outcomes, done_txt, failed_txt, logs0, wi, presets,
                   retries, seen, lost>>

\* lines 408 and 438-450: the iterator is exhausted
TransferEnd ==
    /\ pc = "transfer"
    /\ ~next(files, index).some
    /\ item' = None
    /\ pc' = "open_done"
    /\ UNCHANGED <<file_list, parseVars, args, device, disk, files_to_skip,
                   si, root_src, listed, fi, temp_files, files, index, run,
                   first_run, calls, adb, dry_run, stdin, user_input,
                   printed, connected, exit_code, files_done, files_failed,
                   outcomes, mkdirs, done_txt, failed_txt, logs0, wi,
                   presets, retries, seen, lost>>

\* the file emptied on opening
open_truncate(file) == File(<<>>)

\* OpenOptions::new().append(true).create(true).open, lines 452 and 461
open_append(file) == File(file.text)

\* writeln!(file, "{}", path), lines 455 and 464
writeln(file, path) == [file EXCEPT !.text = @ \o path \o <<"\n">>]

\* line 452: files_done.txt is opened, made if absent
OpenDone ==
    /\ pc = "open_done"
    /\ done_txt' = open_append(done_txt)
    /\ wi' = 1
    /\ pc' = "write_done"
    /\ UNCHANGED <<file_list, parseVars, args, device, disk, files_to_skip,
                   si, root_src, listed, fi, temp_files, files, index, item,
                   run, first_run, calls, adb, dry_run, stdin, user_input,
                   printed, connected, exit_code, files_done, files_failed,
                   outcomes, mkdirs, failed_txt, logs0, presets, retries,
                   seen, lost>>

\* line 452: files_done.txt cannot be opened, unwrap panics
OpenDonePanics ==
    /\ pc = "open_done"
    /\ pc' = "panicked"
    /\ UNCHANGED <<file_list, parseVars, args, device, disk, files_to_skip,
                   si, root_src, listed, fi, temp_files, files, index, item,
                   run, first_run, calls, adb, dry_run, stdin, user_input,
                   printed, connected, exit_code, files_done, files_failed,
                   outcomes, mkdirs, done_txt, failed_txt, logs0, wi,
                   presets, retries, seen, lost>>

\* lines 454-455: a copied path is written
WriteDoneOk ==
    /\ pc = "write_done"
    /\ wi <= Len(files_done)
    /\ done_txt' = writeln(done_txt, files_done[wi])
    /\ wi' = wi + 1
    /\ UNCHANGED <<pc, file_list, parseVars, args, device, disk,
                   files_to_skip, si, root_src, listed, fi, temp_files,
                   files, index, item, run, first_run, calls, adb, dry_run,
                   stdin, user_input, printed, connected, exit_code,
                   files_done, files_failed, outcomes, mkdirs, failed_txt,
                   logs0, presets, retries, seen, lost>>

\* lines 455-457: the write fails; the error is printed and the loop goes on
WriteDoneErr ==
    /\ pc = "write_done"
    /\ wi <= Len(files_done)
    /\ lost' = lost \cup {<<"done", wi>>}
    /\ wi' = wi + 1
    /\ UNCHANGED <<pc, file_list, parseVars, args, device, disk,
                   files_to_skip, si, root_src, listed, fi, temp_files,
                   files, index, item, run, first_run, calls, adb, dry_run,
                   stdin, user_input, printed, connected, exit_code,
                   files_done, files_failed, outcomes, mkdirs, done_txt,
                   failed_txt, logs0, presets, retries, seen>>

\* lines 460-461: some file failed; files_failed.txt is opened, made if absent
OpenFailed ==
    /\ pc = "write_done"
    /\ wi > Len(files_done)
    /\ files_failed # <<>>
    /\ failed_txt' = open_append(failed_txt)
    /\ wi' = 1
    /\ pc' = "write_failed"
    /\ UNCHANGED <<file_list, parseVars, args, device, disk, files_to_skip,
                   si, root_src, listed, fi, temp_files, files, index, item,
                   run, first_run, calls, adb, dry_run, stdin, user_input,
                   printed, connected, exit_code, files_done, files_failed,
                   outcomes, mkdirs, done_txt, logs0, presets, retries, seen,
                   lost>>

\* line 461: files_failed.txt cannot be opened, unwrap panics
OpenFailedPanics ==
    /\ pc = "write_done"
    /\ wi > Len(files_done)
    /\ files_failed # <<>>
    /\ pc' = "panicked"
    /\ UNCHANGED <<file_list, parseVars, args, device, disk, files_to_skip,
                   si, root_src, listed, fi, temp_files, files, index, item,
                   run, first_run, calls, adb, dry_run, stdin, user_input,
                   printed, connected, exit_code, files_done, files_failed,
                   outcomes, mkdirs, done_txt, failed_txt, logs0, wi,
                   presets, retries, seen, lost>>

\* lines 460 and 469: no file failed; files_failed.txt is not opened and
\* main returns
ReturnNoFailures ==
    /\ pc = "write_done"
    /\ wi > Len(files_done)
    /\ files_failed = <<>>
    /\ exit_code' = 0
    /\ pc' = "exited"
    /\ UNCHANGED <<file_list, parseVars, args, device, disk, files_to_skip,
                   si, root_src, listed, fi, temp_files, files, index, item,
                   run, first_run, calls, adb, dry_run, stdin, user_input,
                   printed, connected, files_done, files_failed, outcomes,
                   mkdirs, done_txt, failed_txt, logs0, wi, presets, retries,
                   seen, lost>>

\* lines 463-464: a failed path is written
WriteFailedOk ==
    /\ pc = "write_failed"
    /\ wi <= Len(files_failed)
    /\ failed_txt' = writeln(failed_txt, files_failed[wi])
    /\ wi' = wi + 1
    /\ UNCHANGED <<pc, file_list, parseVars, args, device, disk,
                   files_to_skip, si, root_src, listed, fi, temp_files,
                   files, index, item, run, first_run, calls, adb, dry_run,
                   stdin, user_input, printed, connected, exit_code,
                   files_done, files_failed, outcomes, mkdirs, done_txt,
                   logs0, presets, retries, seen, lost>>

\* lines 464-466: the write fails; the error is printed and the loop goes on
WriteFailedErr ==
    /\ pc = "write_failed"
    /\ wi <= Len(files_failed)
    /\ lost' = lost \cup {<<"failed", wi>>}
    /\ wi' = wi + 1
    /\ UNCHANGED <<pc, file_list, parseVars, args, device, disk,
                   files_to_skip, si, root_src, listed, fi, temp_files,
                   files, index, item, run, first_run, calls, adb, dry_run,
                   stdin, user_input, printed, connected, exit_code,
                   files_done, files_failed, outcomes, mkdirs, done_txt,
                   failed_txt, logs0, presets, retries, seen>>

\* lines 463 and 469: every failed path was gone through; main returns
ReturnAfterFailures ==
    /\ pc = "write_failed"
    /\ wi > Len(files_failed)
    /\ exit_code' = 0
    /\ pc' = "exited"
    /\ UNCHANGED <<file_list, parseVars, args, device, disk, files_to_skip,
                   si, root_src, listed, fi, temp_files, files, index, item,
                   run, first_run, calls, adb, dry_run, stdin, user_input,
                   printed, connected, files_done, files_failed, outcomes,
                   mkdirs, done_txt, failed_txt, logs0, wi, presets, retries,
                   seen, lost>>

(***************************************************************************)
(* Inputs of main *)
(***************************************************************************)
\* a folder with two files, and the Pictures folder missing: nothing on
\* standard output
LS_two == <<"/", "s", "d", "c", "a", "r", "d", "/", "D", "C", "I", "M", ":", "\n",
      "a", ".", "j", "p", "g", "\n", "b", ".", "j", "p", "g", "\n">>
MainDevices ==
    { [r \in {R_dcim, R_top, R_pictures} |-> IF r = R_dcim THEN o
                           ELSE IF r = R_top THEN Utf8(LS_top) ELSE Utf8(<<>>)]
      : o \in {Utf8(LS_two), Utf8(LS_missing), NotUtf8} }
MainArgs ==
    { [sources |-> <<r>>, dest |-> D_out, skip |-> None, force |-> FALSE]
      : r \in BuildRoots }
MainPresets ==
    { [media_preset |-> m, whatsapp_preset |-> FALSE, whatsapp_backups_preset |-> FALSE]
      : m \in BOOLEAN }
\* the replies of the operator, each a line
Replies == {<<"y", "\n">>, <<" ", "Y", "\n">>, <<"n", "\n">>, <<"\n">>}
MainStdins == {<<>>, << <<"y", "\n">> >>, << <<"\n">>, <<"n", "\n">> >>}

\* the log files left by an earlier run
OldLog == File(Unlines(<<P_c>>))
MainLogs == {<<Absent, Absent>>, <<OldLog, OldLog>>, <<OldLog, Absent>>}

\* the variables of the listing parser and of the resolver, before they run
BuildFresh ==
    /\ files_to_skip = {}
    /\ si = 1
    /\ root_src = <<>>
    /\ listed = <<>>
    /\ fi = 1
    /\ temp_files = new
    /\ index = 0
    /\ item = None
    /\ run = 1
    /\ first_run = new
    /\ file_list = <<>>
    /\ root_path = <<>>
    /\ output = NotUtf8
    /\ lines = <<>>
    /\ li = 1
    /\ current_folder_root = <<>>
    /\ added_by = <<>>

\* the variables of main, before it runs
MainFresh ==
    /\ calls = <<>>
    /\ user_input = <<>>
    /\ printed = <<>>
    /\ connected = "unknown"
    /\ exit_code = -1
    /\ files_done = <<>>
    /\ files_failed = <<>>
    /\ outcomes = <<>>
    /\ mkdirs = <<>>
    /\ wi = 1
    /\ retries = None
    /\ seen = <<>>
    /\ lost = {}

MainInit ==
    /\ pc = "parse"
    /\ args \in MainArgs
    /\ presets \in MainPresets
    /\ device \in MainDevices
    /\ disk \in DiskChoices
    /\ adb \in {"adjacent", "on_path", "missing", "no_exe"}
    /\ dry_run \in BOOLEAN
    /\ stdin \in (IF dry_run THEN MainStdins ELSE {<<>>})
    /\ logs0 \in MainLogs
    /\ done_txt = logs0[1]
    /\ failed_txt = logs0[2]
    /\ files = new
    /\ BuildFresh
    /\ MainFresh

MainNext ==
    \/ CheckSources \/ GetAdbPathOk \/ GetAdbPathErr
    \/ DevicesSpawnFails \/ DevicesNotUtf8 \/ DevicesConnected \/ DevicesRetry
    \/ DevicesNone
    \/ GetFilesToSkip \/ ListRoot \/ ListRootFails \/ Retain
    \/ ResolvePanic \/ ResolveStripFails \/ ResolveExists \/ ResolvePush
    \/ AppendFiles \/ ReturnFiles
    \/ DryRunBranch \/ NothingToCopy \/ StartTransfer
    \/ PrintPrompt \/ ReadLine \/ ReadEof \/ AnswerYes \/ AnswerNo
    \/ TransferMkdirFails \/ TransferPullOk \/ TransferPullFails
    \/ TransferPullPanics \/ TransferEnd
    \/ OpenDone \/ OpenDonePanics \/ WriteDoneOk \/ WriteDoneErr
    \/ OpenFailed \/ OpenFailedPanics \/ ReturnNoFailures
    \/ WriteFailedOk \/ WriteFailedErr \/ ReturnAfterFailures

SpecMain == MainInit /\ [][MainNext]_vars

(***************************************************************************)
(* The dry-run prompt on its own: any sequence of replies, lines 368-395 *)
(***************************************************************************)
Out_of(file) == destination(file, R_dcim, D_out)
PromptFiles ==
    { new, push_pair(new, P_a, Out_of(P_a)),
      push_pair(push_pair(new, P_a, Out_of(P_a)), P_b, Out_of(P_b)) }

PromptInit ==
    /\ pc = "built"
    /\ dry_run = TRUE
    /\ files \in PromptFiles
    /\ stdin \in SeqsUpTo(Replies, MaxReplies)
    /\ args = [sources |-> <<R_dcim>>, dest |-> D_out, skip |-> None, force |-> FALSE]
    /\ presets \in {p \in MainPresets : ~p.media_preset}
    /\ device \in {d \in MainDevices : d[R_dcim] = Utf8(LS_two)}
    /\ disk = {}
    /\ adb = "adjacent"
    /\ logs0 = <<Absent, Absent>>
    /\ done_txt = Absent
    /\ failed_txt = Absent
    /\ calls = <<"devices", "ls">>
    /\ user_input = <<>>
    /\ printed = <<>>
    /\ connected = "true"
    /\ exit_code = -1
    /\ files_done = <<>>
    /\ files_failed = <<>>
    /\ outcomes = <<>>
    /\ mkdirs = <<>>
    /\ wi = 1
    /\ retries = None
    /\ seen = <<D_one>>
    /\ lost = {}
    /\ BuildFresh

PromptNext ==
    \/ DryRunBranch \/ NothingToCopy
    \/ PrintPrompt \/ ReadLine \/ ReadEof \/ AnswerYes \/ AnswerNo

\* the process is single-threaded and keeps running: a step that can be taken
\* is taken
SpecPrompt == PromptInit /\ [][PromptNext]_vars /\ WF_vars(PromptNext)

(***************************************************************************)
(* Claims about main, under SpecMain *)
(***************************************************************************)
Count(s, x) == Cardinality({k \in 1..Len(s) : s[k] = x})
IsCopied(o) == o.kind = "copied"
NotCopied(o) == o.kind # "copied"
SourcesOf(os) == [k \in 1..Len(os) |-> os[k].src]

\* the transfer loop ran to its end
LoopCompleted ==
    \/ pc \in {"open_done", "write_done", "write_failed"}
    \/ pc = "exited" /\ exit_code = 0 /\ ~dry_run /\ ~is_empty(files)

C12_DryRunNoTransfer ==
    dry_run =>
        /\ Count(calls, "pull") = 0
        /\ mkdirs = <<>>
        /\ files_done = <<>> /\ files_failed = <<>>
        /\ done_txt = logs0[1]
        /\ failed_txt = logs0[2]

\* a dry run of a plan of four pairs that the operator asked to see
C12_Witness ==
    /\ dry_run
    /\ pc = "exited"
    /\ Len(printed) = 4
    /\ logs0[1] = OldLog

\* get_adb_path found the tool
ToolLocated == adb \in {"adjacent", "on_path"}
LogsUntouched == done_txt = logs0[1] /\ failed_txt = logs0[2]

\* C13: when adb is not located, or both connectivity checks find no device,
\* the process exits with code 1; a process that exited with code 1 listed
\* nothing, pulled nothing and wrote no log; and code 1 is never the exit code
\* of a run that located adb and found a device.
C13_FatalErrorsFirst ==
    /\ (pc \notin {"parse", "main"} /\ ~ToolLocated) => (pc = "exited" /\ exit_code = 1)
    /\ connected = "false" => (pc = "exited" /\ exit_code = 1)
    /\ exit_code = 1 =>
          /\ Count(calls, "ls") = 0
          /\ Count(calls, "pull") = 0
          /\ LogsUntouched
          /\ ~ToolLocated \/ connected # "true"

\* adb was located and neither of the two checks found a device
C13_Witness ==
    /\ pc = "exited"
    /\ exit_code = 1
    /\ ToolLocated
    /\ connected = "false"
    /\ Len(seen) = 2

\* a run that went through the transfer loop and returned from main
RunCompleted == pc = "exited" /\ exit_code = 0 /\ ~dry_run /\ ~is_empty(files)

\* the paths of a log whose write did not fail, in order
RECURSIVE Written(_, _, _)
Written(which, paths, k) ==
    IF k > Len(paths) THEN <<>>
    ELSE (IF <<which, k>> \in lost THEN <<>> ELSE <<paths[k]>>)
             \o Written(which, paths, k + 1)

\* the text t begins with the text p
BeginsWith(t, p) == Len(t) >= Len(p) /\ SubSeq(t, 1, Len(p)) = p

C17_DeduplicatedPlan ==
    pc = "built" =>
        \A i, j \in 1..len(files) :
            i < j =>
                /\ location(files.dest_files[i]) # location(files.dest_files[j])
                /\ <<files.src_files[i], files.dest_files[i]>>
                      # <<files.src_files[j], files.dest_files[j]>>

\* C18: `adb devices` is invoked at most twice; connected_to_adb_server
\* returns true at the first invocation whose output, trailing whitespace
\* removed, does not end in "List of devices attached", and nothing is invoked
\* after it; it returns false only after two invocations that both end in
\* that line.
C18_ConnectivityRetry ==
    /\ Count(calls, "devices") <= 2
    /\ Len(seen) <= Count(calls, "devices")
    /\ connected = "true" =>
          /\ seen # <<>>
          /\ Count(calls, "devices") = Len(seen)
          /\ \A k \in 1..Len(seen) : no_device(seen[k]) <=> k < Len(seen)
    /\ connected = "false" =>
          /\ Len(seen) = 2
          /\ \A k \in 1..Len(seen) : no_device(seen[k])
    /\ connected = "unknown" => \A k \in 1..Len(seen) : no_device(seen[k])

\* the first check found no device and the second found one
C18_Witness ==
    /\ connected = "true"
    /\ seen = <<D_none, D_one>>
    /\ pc = "built"

(***************************************************************************)
(* Claims about the dry-run prompt, under SpecPrompt *)
(***************************************************************************)
\* C19: a dry run that reaches the prompt ends with exit code 0 whatever the
\* operator replies, end of input included, and the pairs are printed only
\* when the reply is y.
C19_DryRunTerminates ==
    /\ (pc = "prompt") ~> (pc = "exited" /\ exit_code = 0)
    /\ [](printed # <<>> => answered(user_input, "y"))

(***************************************************************************)
(* More claims about the destination resolver, under SpecResolve *)
(***************************************************************************)
\* C14: every iteration of the loop of build_destination_files, for any
\* root, a root without parent included, goes on to the next entry, having
\* either pushed the pair of this entry or left the result as it was.
C14_EntryStep ==
    InLoop =>
        /\ pc' = "resolve"
        /\ fi' = fi + 1
        /\ \/ temp_files' = temp_files
           \/ /\ Len(temp_files'.src_files) = Len(temp_files.src_files) + 1
              /\ Last(temp_files'.src_files) = file_list[fi]
C14_ReRootingRecoverable == [][C14_EntryStep]_vars

(***************************************************************************)
(* More claims about the listing parser, under SpecParse *)
(***************************************************************************)
\* C15: every path get_files_from_adb returns, for any root and any listing,
\* starts with "/" and does not end in "/".
C15_RemotePathInvariant ==
    Returned =>
        \A k \in 1..Len(file_list) :
            starts_with(file_list[k], "/") /\ ~ends_with(file_list[k], "/")

====
